---------------------------- MODULE Spec2Model ----------------------------
(***************************************************************************)
(* dgl.ops.edge_softmax: the public wrapper around the backend's           *)
(* edge-softmax kernel.                                                    *)
(*                                                                         *)
(* The wrapper (python/dgl/ops/edge_softmax.py) binds its two optional     *)
(* parameters, unwraps the graph handle and makes one call to the backend. *)
(* The backend kernel is not among the source files; it is modelled from   *)
(* section 4.1 of the specification.                                       *)
(*                                                                         *)
(* Numbers.  A logit is an integer and a tensor is one slice of shape (E): *)
(* trailing feature dimensions are normalised independently, slice by      *)
(* slice.  exp is kept symbolic: a sum of exponentials e^a + e^b + ... is  *)
(* the bag of its exponents, and a weight is a quotient of two such sums.  *)
(* e is transcendental, so two quotients whose denominators both have      *)
(* largest exponent 0 are equal numbers exactly when they are equal as     *)
(* records.  Arithmetic is therefore exact; rounding is not modelled.      *)
(***************************************************************************)
EXTENDS Integers, Sequences, FiniteSets, Bags, TLC

VARIABLES
    graph,          \* the caller's DGLGraph object
    logits,         \* the caller's logits tensor
    eids,           \* the caller's eids argument (a tensor, ALL, or left out)
    norm_by,        \* the caller's norm_by argument (a string, or left out)
    pc,             \* "idle" | "ready" (arguments built) | "returned"
    backendCalls,   \* the calls edge_softmax made to the backend, in order
    result,         \* what edge_softmax gave its caller: a tensor or an exception
    history         \* calls of the session so far (kept by the session runs only)

vars == <<graph, logits, eids, norm_by, pc, backendCalls, result, history>>

---------------------------------------------------------------------------
(* Bounds of the model *)

MaxEdges == 3
MaxCalls == 3

---------------------------------------------------------------------------
(* Values *)

\* base.ALL, the "every edge of the graph" sentinel
ALL == [tag |-> "ALL", ids |-> <<>>]

\* an optional argument the caller did not pass
OmittedEids == [tag |-> "omitted", ids |-> <<>>]
OmittedNormBy == "<omitted>"

\* an explicit eids tensor
Ids(s) == [tag |-> "ids", ids |-> s]

\* a graph index (what graph._graph holds): n nodes 0..n-1, edge k (0-based)
\* runs from src[k+1] to dst[k+1]
GraphIndex(n, s, d) == [n |-> n, src |-> s, dst |-> d]

\* a DGLGraph object wrapping a graph index
DGLGraph(gidx) == [_graph |-> gidx]

NumEdges(gidx) == Len(gidx.src)

\* node ids of the small graphs: two nodes tell source groups from
\* destination groups
Nodes == {0, 1}

\* logit values of the small tensors: inside a group the exponents are 0 and -1
LogitValues == {0, 1}

SmallGraphs ==
    {DGLGraph(GraphIndex(2, s, d)) :
        <<s, d>> \in UNION {[1..k -> Nodes] \X [1..k -> Nodes] : k \in 0..MaxEdges}}

\* the docstring's graph: 3 nodes, edges 0->0, 0->1, 0->2, 1->1, 1->2, 2->2
ExampleGraph ==
    DGLGraph(GraphIndex(3, <<0, 0, 0, 1, 1, 2>>, <<0, 1, 2, 1, 2, 2>>))

\* th.ones(k)
Ones(k) == [i \in 1..k |-> 1]

\* the docstring's tensors: edata, edata[:4] and th.Tensor([0,1,2,3])
DocLogits == {Ones(6), Ones(4)}
DocEids == {Ids(<<0, 1, 2, 3>>)}

Graphs == SmallGraphs \cup {ExampleGraph}

Distinct(s) == \A i, j \in 1..Len(s) : i # j => s[i] # s[j]

\* explicit selections: distinct ids of the graph's edges in any order, and
\* short ones with a repeated id or an id the graph does not have
EidsPool(g) ==
    LET E == NumEdges(g._graph)
    IN  {Ids(s) : s \in
            {q \in UNION {[1..k -> 0..E] : k \in 0..MaxEdges} :
                \/ Len(q) <= 2
                \/ Distinct(q) /\ \A i \in 1..Len(q) : q[i] < E}}
            \cup DocEids \cup {ALL, OmittedEids}

\* the tensors a caller pairs with selection e: any values, one per selected
\* edge, and th.ones of every length, right or wrong
LogitsPool(g, e) ==
    LET n == IF e \in {ALL, OmittedEids} THEN NumEdges(g._graph) ELSE Len(e.ids)
    IN  [1..n -> LogitValues] \cup {Ones(k) : k \in 0..MaxEdges} \cup DocLogits

NormByPool == {"dst", "src", "node", OmittedNormBy}

\* the docstring's calls pass norm_by='src' or leave it out
DocNormBy == {"src", OmittedNormBy}

---------------------------------------------------------------------------
(* Outcomes of a call *)

Return(t) == [kind |-> "ok", value |-> t]
Raise(e) == [kind |-> e, value |-> <<>>]
NoResult == [kind |-> "none", value |-> <<>>]

---------------------------------------------------------------------------
(* The backend kernel (specification, section 4.1) *)

\* the selected edge ids, in output order
SelectedEdges(gidx, sel) ==
    IF sel = ALL THEN [i \in 1..NumEdges(gidx) |-> i - 1] ELSE sel.ids

HasUnknownId(gidx, s) == \E i \in 1..Len(s) : s[i] \notin 0..(NumEdges(gidx) - 1)

HasDuplicateId(s) == \E i, j \in 1..Len(s) : i # j /\ s[i] = s[j]

\* the node whose group edge e belongs to
GroupNode(gidx, e, mode) ==
    IF mode = "dst" THEN gidx.dst[e + 1] ELSE gidx.src[e + 1]

\* S(g): the positions of the selection that share position i's group
GroupOf(gidx, s, mode, i) ==
    {j \in 1..Len(s) : GroupNode(gidx, s[j], mode) = GroupNode(gidx, s[i], mode)}

Max(S) == CHOOSE x \in S : \A y \in S : y <= x

\* step 1: m = max of the group's logits
GroupMax(t, S) == Max({t[j] : j \in S})

\* exp(x), as the one-term sum e^x
Exp(x) == SetToBag({x})

\* steps 2 and 3: Z(g), the sum of exp(logits[e] - m) over the group S
RECURSIVE SumExp(_, _, _)
SumExp(t, S, m) ==
    IF S = {} THEN EmptyBag
    ELSE LET j == CHOOSE k \in S : TRUE
         IN  Exp(t[j] - m) (+) SumExp(t, S \ {j}, m)

\* steps 1-4 for the selection s: weights[i] = exp(logits[i] - m) / Z(g)
Softmax(gidx, t, s, mode) ==
    [i \in 1..Len(s) |->
        LET S == GroupOf(gidx, s, mode, i)
            m == GroupMax(t, S)
        IN  [num |-> Exp(t[i] - m), den |-> SumExp(t, S, m)]]

edge_softmax_internal(gidx, t, sel, mode) ==
    IF mode \notin {"dst", "src"} THEN Raise("InvalidArgument")
    ELSE IF sel # ALL /\ HasUnknownId(gidx, sel.ids) THEN Raise("InvalidArgument")
    ELSE IF sel # ALL /\ HasDuplicateId(sel.ids) /\ Len(t) # Len(sel.ids)
        THEN Raise("InvalidArgument")
    ELSE IF Len(t) # Len(SelectedEdges(gidx, sel)) THEN Raise("ShapeMismatch")
    ELSE Return(Softmax(gidx, t, SelectedEdges(gidx, sel), mode))

---------------------------------------------------------------------------
(* The wrapper (python/dgl/ops/edge_softmax.py) *)

\* def edge_softmax(graph, logits, eids=ALL, norm_by='dst')
EidsParam(a) == IF a = OmittedEids THEN ALL ELSE a

\* a wrong default: norm_by='src'
NormByParam_SrcDefault(a) == IF a = OmittedNormBy THEN "src" ELSE a

NormByParam(a) == IF a = OmittedNormBy THEN "dst" ELSE a

\* norm_by not forwarded: the backend falls back to 'dst'
BackendArgs_DropNormBy(g, t, sel, mode) ==
    [gidx |-> g._graph, logits |-> t, eids |-> sel, norm_by |-> "dst"]

\* eids not forwarded: the backend falls back to ALL
BackendArgs_DropEids(g, t, sel, mode) ==
    [gidx |-> g._graph, logits |-> t, eids |-> ALL, norm_by |-> mode]

\* the argument list of the call to edge_softmax_internal
BackendArgs(g, t, sel, mode) ==
    [gidx |-> g._graph, logits |-> t, eids |-> sel, norm_by |-> mode]

\* norm_by kept from one call to the next: a call after the first
\* normalises the way the call before it was asked to
edge_softmax_StaleNormBy(g, t, sel, mode) ==
    LET kept == IF history = <<>> THEN mode
                ELSE NormByParam(history[Len(history)].norm_by)
        a == BackendArgs(g, t, sel, kept)
    IN  [calls |-> <<a>>,
         outcome |-> edge_softmax_internal(a.gidx, a.logits, a.eids, a.norm_by)]

\* the body: one backend call, whose outcome is returned or propagates.
\* calls: the backend calls made; outcome: what the caller gets
edge_softmax(g, t, sel, mode) ==
    LET a == BackendArgs(g, t, sel, mode)
    IN  [calls |-> <<a>>,
         outcome |-> edge_softmax_internal(a.gidx, a.logits, a.eids, a.norm_by)]

---------------------------------------------------------------------------
(* Actions *)

Init ==
    /\ graph \in Graphs
    /\ logits = <<>>
    /\ eids = OmittedEids
    /\ norm_by = OmittedNormBy
    /\ pc = "idle"
    /\ backendCalls = <<>>
    /\ result = NoResult
    /\ history = <<>>

\* the caller builds the tensors of its next call
Prepare ==
    /\ pc = "idle"
    /\ eids' \in EidsPool(graph)
    /\ logits' \in LogitsPool(graph, eids')
    /\ pc' = "ready"
    /\ UNCHANGED <<graph, norm_by, backendCalls, result, history>>

\* one call edge_softmax(graph, logits, eids, nb); eids or nb may be left out
DoCall(nb) ==
    /\ pc = "ready"
    /\ norm_by' = nb
    /\ LET run == edge_softmax(graph, logits, EidsParam(eids), NormByParam(nb))
       IN  /\ backendCalls' = run.calls
           /\ result' = run.outcome
    /\ pc' = "returned"
    /\ UNCHANGED <<graph, logits, eids>>

Call == \E nb \in NormByPool : DoCall(nb) /\ UNCHANGED history

\* the caller drops the tensors and the output of the call it made
Discard ==
    /\ pc = "returned"
    /\ logits' = <<>>
    /\ eids' = OmittedEids
    /\ norm_by' = OmittedNormBy
    /\ pc' = "idle"
    /\ backendCalls' = <<>>
    /\ result' = NoResult
    /\ UNCHANGED <<graph, history>>

Next == Prepare \/ Call \/ Discard

Spec == Init /\ [][Next]_vars

---------------------------------------------------------------------------
(* A session of the docstring's calls on the docstring's graph, in any     *)
(* order and any number up to MaxCalls, each call and its outcome logged.  *)

InitDoc ==
    /\ graph = ExampleGraph
    /\ logits = <<>>
    /\ eids = OmittedEids
    /\ norm_by = OmittedNormBy
    /\ pc = "idle"
    /\ backendCalls = <<>>
    /\ result = NoResult
    /\ history = <<>>

PrepareDoc ==
    /\ pc = "idle"
    /\ Len(history) < MaxCalls
    /\ eids' \in DocEids \cup {OmittedEids}
    /\ logits' \in DocLogits
    /\ pc' = "ready"
    /\ UNCHANGED <<graph, norm_by, backendCalls, result, history>>

CallLogged ==
    \E nb \in DocNormBy :
        /\ DoCall(nb)
        /\ history' = Append(history,
                             [graph |-> graph, logits |-> logits, eids |-> eids,
                              norm_by |-> nb, result |-> result'])

NextDoc == PrepareDoc \/ CallLogged \/ Discard

SpecSession == InitDoc /\ [][NextDoc]_vars

---------------------------------------------------------------------------
(* Vocabulary of the properties *)

Returned == pc = "returned"

\* the parameter values the signature gives the call, written out
EffEids == IF eids = OmittedEids THEN ALL ELSE eids
EffNormBy == IF norm_by = OmittedNormBy THEN "dst" ELSE norm_by

\* the edge ids the call selects, in order
EffSelection ==
    IF EffEids = ALL THEN [i \in 1..NumEdges(graph._graph) |-> i - 1]
    ELSE EffEids.ids

ValidNormBy == EffNormBy \in {"dst", "src"}

\* ALL, or distinct ids of edges of the graph
ValidSelection ==
    \A i \in 1..Len(EffSelection) :
        /\ EffSelection[i] \in 0..(NumEdges(graph._graph) - 1)
        /\ \A j \in 1..Len(EffSelection) : i # j => EffSelection[i] # EffSelection[j]

\* the end node of edge e that names its group under mode
EndNode(g, e, mode) ==
    IF mode = "dst" THEN g._graph.dst[e + 1] ELSE g._graph.src[e + 1]

\* the output positions of node v's group
PositionsOf(v, mode) ==
    {i \in 1..Len(EffSelection) : EndNode(graph, EffSelection[i], mode) = v}

AllNodes == 0..(graph._graph.n - 1)

\* the number 1/k
OneOver(k) == [num |-> SetToBag({0}), den |-> [x \in {0} |-> k]]

RECURSIVE SumNum(_, _)
SumNum(w, S) ==
    IF S = {} THEN EmptyBag
    ELSE LET j == CHOOSE k \in S : TRUE IN w[j].num (+) SumNum(w, S \ {j})

\* the weights at positions S have one denominator and numerators adding up
\* to it: their sum is 1
SumsToOne(w, S) ==
    LET total == SumNum(w, S)
    IN  \A i \in S : w[i].den = total

---------------------------------------------------------------------------
(* C1: whenever edge_softmax returns weights, for 'dst' as for 'src', the   *)
(* weights of the selected edges that share a destination node (norm_by     *)
(* 'dst') or a source node (norm_by 'src') sum to 1; a valid selection with *)
(* one logit per selected edge does return weights.                         *)
C1_GroupsSumToOne ==
    Returned =>
        /\ (ValidNormBy /\ ValidSelection /\ Len(logits) = Len(EffSelection))
              => result.kind = "ok"
        /\ (result.kind = "ok" /\ ValidSelection) =>
              /\ Len(result.value) = Len(EffSelection)
              /\ \A v \in AllNodes :
                    SumsToOne(result.value, PositionsOf(v, EffNormBy))

\* a 'src' call on a graph where the source groups and the destination
\* groups differ, with unequal logits inside a group
C1_Witness ==
    /\ Returned
    /\ result.kind = "ok"
    /\ norm_by = "src"
    /\ ValidSelection
    /\ \E v \in AllNodes :
          /\ Cardinality(PositionsOf(v, "src")) >= 2
          /\ PositionsOf(v, "src") # PositionsOf(v, "dst")
          /\ \E i, j \in PositionsOf(v, "src") : logits[i] # logits[j]

---------------------------------------------------------------------------
(* C2: edge_softmax makes exactly one backend call, with graph._graph and   *)
(* the caller's logits, eids and norm_by as they are (ALL and 'dst' for the *)
(* ones the caller left out), and hands back that call's outcome as it is.  *)
C2_ForwardsToBackend ==
    Returned =>
        /\ Len(backendCalls) = 1
        /\ backendCalls[1] = [gidx |-> graph._graph, logits |-> logits,
                              eids |-> EffEids, norm_by |-> EffNormBy]
        /\ eids = OmittedEids => backendCalls[1].eids = ALL
        /\ norm_by = OmittedNormBy => backendCalls[1].norm_by = "dst"
        /\ result = edge_softmax_internal(graph._graph, logits, EffEids, EffNormBy)

\* a call that leaves out both optional arguments and gets weights back
C2_Witness ==
    /\ Returned
    /\ eids = OmittedEids
    /\ norm_by = OmittedNormBy
    /\ result.kind = "ok"
    /\ Len(result.value) >= 2
    /\ backendCalls[1].gidx = graph._graph

(* C3: a call whose norm_by is neither 'dst' nor 'src' ends, in the call    *)
(* itself, with InvalidArgument, and hands back no weights at all.          *)
C3_BadNormByRaises ==
    (Returned /\ norm_by \notin {"dst", "src", OmittedNormBy}) =>
        /\ result.kind = "InvalidArgument"
        /\ result.value = <<>>

\* a call that is valid but for its norm_by
C3_Witness ==
    /\ Returned
    /\ norm_by = "node"
    /\ ValidSelection
    /\ Len(logits) = Len(EffSelection)
    /\ Len(logits) >= 2
    /\ result = Raise("InvalidArgument")

(* C4: with one logit on all selected edges, the weight at every output     *)
(* position is 1 over the number of selected edges in that edge's group,    *)
(* positions following the selection's order; the docstring's graph with    *)
(* logits 1.0 gives [1, 1/2, 1/3, 1/2, 1/3, 1/3] by 'dst' and               *)
(* [1/3, 1/3, 1/3, 1/2, 1/2, 1] by 'src'.                                   *)
C4_EqualLogitsUniform ==
    (Returned /\ ValidNormBy /\ ValidSelection /\ Len(logits) = Len(EffSelection)
        /\ \A i, j \in 1..Len(logits) : logits[i] = logits[j]) =>
        /\ result.kind = "ok"
        /\ Len(result.value) = Len(EffSelection)
        /\ \A i \in 1..Len(EffSelection) :
              result.value[i] =
                  OneOver(Cardinality(PositionsOf(
                      EndNode(graph, EffSelection[i], EffNormBy), EffNormBy)))
        /\ (graph = ExampleGraph /\ logits = Ones(6) /\ EffEids = ALL) =>
              /\ EffNormBy = "dst" =>
                    result.value = <<OneOver(1), OneOver(2), OneOver(3),
                                     OneOver(2), OneOver(3), OneOver(3)>>
              /\ EffNormBy = "src" =>
                    result.value = <<OneOver(3), OneOver(3), OneOver(3),
                                     OneOver(2), OneOver(2), OneOver(1)>>

\* the docstring's call edge_softmax(g, edata, norm_by='src')
C4_Witness ==
    /\ Returned
    /\ graph = ExampleGraph
    /\ logits = Ones(6)
    /\ eids = OmittedEids
    /\ norm_by = "src"
    /\ result.kind = "ok"
    /\ result.value[6] = OneOver(1)

\* the graph of the selected edges alone, renumbered in the selection's order
EdgeSubgraph(g, s) ==
    DGLGraph(GraphIndex(g._graph.n,
                        [i \in 1..Len(s) |-> g._graph.src[s[i] + 1]],
                        [i \in 1..Len(s) |-> g._graph.dst[s[i] + 1]]))

(* C5: for an explicit selection of distinct edge ids of the graph, the     *)
(* call gives what edge_softmax gives over all edges of the subgraph that   *)
(* holds only the selected edges; ids [0,1,2,3] of the docstring's graph    *)
(* with logits 1.0 give [1, 1/2, 1, 1/2].                                   *)
C5_SelectionIsInducedSubgraph ==
    (Returned /\ EffEids # ALL /\ ValidSelection) =>
        /\ result = edge_softmax(EdgeSubgraph(graph, EffSelection), logits,
                                 ALL, EffNormBy).outcome
        /\ (graph = ExampleGraph /\ logits = Ones(4) /\ EffNormBy = "dst"
                /\ EffSelection = <<0, 1, 2, 3>>) =>
              result = Return(<<OneOver(1), OneOver(2), OneOver(1), OneOver(2)>>)

\* the docstring's call edge_softmax(g, edata[:4], th.Tensor([0,1,2,3]))
C5_Witness ==
    /\ Returned
    /\ graph = ExampleGraph
    /\ logits = Ones(4)
    /\ eids = Ids(<<0, 1, 2, 3>>)
    /\ norm_by = OmittedNormBy
    /\ result.kind = "ok"
    /\ result # edge_softmax_internal(graph._graph, Ones(6), ALL, "dst")

\* every edge turned round, ids kept
Reversed(g) ==
    DGLGraph(GraphIndex(g._graph.n, g._graph.dst, g._graph.src))

(* C6: a call with norm_by 'src' gives what edge_softmax with norm_by 'dst' *)
(* gives on the reversed graph, for the same logits and selection.          *)
C6_SrcIsDstOnReverse ==
    (Returned /\ EffNormBy = "src") =>
        result = edge_softmax(Reversed(graph), logits, EffEids, "dst").outcome

\* a 'src' call whose weights are not the 'dst' weights of the same graph
C6_Witness ==
    /\ Returned
    /\ norm_by = "src"
    /\ result.kind = "ok"
    /\ result # edge_softmax_internal(graph._graph, logits, EffEids, "dst")

\* one shift down and one up
Shifts == {-1, 1}

\* t with c added at the positions S
ShiftAt(t, S, c) == [i \in 1..Len(t) |-> IF i \in S THEN t[i] + c ELSE t[i]]

(* C7: adding one constant to the logits of all selected edges of one       *)
(* group gives the same weights, in that group and in every other.          *)
C7_ShiftInvariant ==
    (Returned /\ result.kind = "ok" /\ ValidSelection) =>
        \A v \in AllNodes : \A c \in Shifts :
            edge_softmax(graph, ShiftAt(logits, PositionsOf(v, EffNormBy), c),
                         EffEids, EffNormBy).outcome = result

\* two groups, one of them with unequal logits, under 'src'
C7_Witness ==
    /\ Returned
    /\ result.kind = "ok"
    /\ ValidSelection
    /\ norm_by = "src"
    /\ \E v, u \in AllNodes :
          /\ v # u
          /\ PositionsOf(u, "src") # {}
          /\ PositionsOf(v, "src") # PositionsOf(v, "dst")
          /\ \E i, j \in PositionsOf(v, "src") : logits[i] # logits[j]

(* C8 as stated: whenever the logits' leading dimension differs from the    *)
(* number of selected edges (the length of eids, or the edge count for      *)
(* ALL) the call fails with ShapeMismatch and no result; a successful       *)
(* call's output has the shape of the logits.                               *)
C8_AsStated ==
    Returned =>
        /\ Len(logits) # Len(EffSelection) => result = Raise("ShapeMismatch")
        /\ result.kind = "ok" => Len(result.value) = Len(logits)

(* C8, amended: the same for calls whose norm_by is 'dst' or 'src' and      *)
(* whose selection is ALL or distinct ids of the graph's edges.             *)
C8_ShapeMismatchRaises ==
    Returned =>
        /\ (ValidNormBy /\ ValidSelection /\ Len(logits) # Len(EffSelection))
              => result = Raise("ShapeMismatch")
        /\ result.kind = "ok" => Len(result.value) = Len(logits)

\* an explicit selection of two edges with one logit
C8_Witness ==
    /\ Returned
    /\ ValidNormBy
    /\ ValidSelection
    /\ eids.tag = "ids"
    /\ Len(eids.ids) = 2
    /\ Len(logits) = 1
    /\ result = Raise("ShapeMismatch")

(* C10 as stated: a call with an empty selection and a logits tensor of     *)
(* leading dimension 0 returns an empty tensor and raises nothing.          *)
C10_AsStated ==
    (Returned /\ Len(EffSelection) = 0 /\ Len(logits) = 0) =>
        result = Return(<<>>)

(* C10, amended: the same for calls whose norm_by is 'dst' or 'src'; no     *)
(* node has a group in such a call.                                         *)
C10_EmptySelection ==
    (Returned /\ ValidNormBy /\ Len(EffSelection) = 0 /\ Len(logits) = 0) =>
        /\ result = Return(<<>>)
        /\ \A v \in AllNodes : PositionsOf(v, EffNormBy) = {}

\* an empty explicit selection on a graph that has edges
C10_Witness ==
    /\ Returned
    /\ NumEdges(graph._graph) >= 2
    /\ eids = Ids(<<>>)
    /\ logits = <<>>
    /\ norm_by = "src"
    /\ result = Return(<<>>)

SameArguments(a, b) ==
    /\ a.graph = b.graph
    /\ a.logits = b.logits
    /\ a.eids = b.eids
    /\ a.norm_by = b.norm_by

=============================================================================
